---- MODULE Spec2Model ----
(***************************************************************************)
(* A state-machine model of the blog application in src/main.py: the three *)
(* tables (users, blog_posts, comment), the login session of each browser, *)
(* and one action per route handler.  Handlers that read the database and  *)
(* commit later (register, edit_post) are split at the commit, because the *)
(* development server serves requests on concurrent threads.               *)
(***************************************************************************)
EXTENDS Integers, Sequences, FiniteSets, TLC

\* ---------------------------------------------------------------- bounds
MaxUsers == 2
MaxPosts == 2
MaxComments == 1
MaxDay == 1
MaxMail == 1

\* ------------------------------------------------------- program constants
\* current_user.id != 1 : the administrator is the user row with key 1
AdminId == 1
\* the session of a browser that is not logged in (flask-login's anonymous user)
Anonymous == 0
\* a NULL foreign key
Null == 0

\* ------------------------------------------------------------ input sets
Clients == {"c1", "c2"}
Methods == {"GET", "POST"}
Salts == {3, 5}

RegisterForms ==
  { [name |-> "Ann", email |-> "a@x", password |-> "pw1"],
    [name |-> "Bob", email |-> "b@x", password |-> "pw2"],
    [name |-> "Eve", email |-> "a@x", password |-> "pw2"],
    [name |-> "",    email |-> "b@x", password |-> "pw1"] }

LoginForms ==
  { [email |-> e, password |-> p] : e \in {"a@x", "b@x", "z@x"}, p \in {"pw1", "pw2"} }
    \cup { [email |-> "a@x", password |-> ""] }

CommentForms == { [comment |-> "hello"], [comment |-> ""] }

PostForms ==
  { [title |-> "T1", subtitle |-> "S1", body |-> "B1", img_url |-> "U1"],
    [title |-> "T1", subtitle |-> "S2", body |-> "B1", img_url |-> "U1"],
    [title |-> "T2", subtitle |-> "S2", body |-> "B2", img_url |-> "U2"],
    [title |-> "",   subtitle |-> "S1", body |-> "B1", img_url |-> "U1"] }

SmtpOutcomes == {"connect_failed", "starttls_failed", "login_failed", "sendmail_failed", "sent"}

VARIABLES
  users,     \* table users:      id -> [email, password, name]
  posts,     \* table blog_posts: id -> [author_id, title, subtitle, date, body, img_url]
  comments,  \* table comment:    id -> [author_id, post_id, text]
  session,   \* per browser: the user id stored in its session cookie, or Anonymous
  pending,   \* per browser: the request whose handler has read and not yet committed
  today,     \* the server's calendar day
  smtp,      \* the mail relay: connections attempted and messages accepted
  req,       \* the request served by the last step: its route, the identity it
             \* ran as, the post id of its URL and, for the account routes, its form
  resp       \* the response to it

vars == <<users, posts, comments, session, pending, today, smtp, req, resp>>

\* ------------------------------------------------------------- responses
Response(status, to, flashed, page, error) ==
  [status |-> status, to |-> to, flash |-> flashed, page |-> page, error |-> error]

redirect(to) == Response(302, to, "", "", "")
flash(message, to) == Response(302, to, message, "", "")
render_template(page) == Response(200, <<>>, "", page, "")
abort(code) == Response(code, <<>>, "", "", "")
\* an exception no handler catches: the 500 page names it
uncaught(exception) == Response(500, <<>>, "", "", exception)
\* the response of a request whose handler has not returned yet
InFlight == Response(0, <<>>, "", "", "")

NoForm == [none |-> TRUE]
NoReq == [op |-> "none", uid |-> 0, id |-> 0, form |-> NoForm]

\* ---------------------------------------------------------------- tables
Max(S) == CHOOSE m \in S : \A x \in S : x <= m
\* an INTEGER PRIMARY KEY column: the next key is the largest key plus one
NextId(table) == IF DOMAIN table = {} THEN 1 ELSE Max(DOMAIN table) + 1
Insert(table, row) == table @@ (NextId(table) :> row)
Remove(table, id) == [k \in DOMAIN table \ {id} |-> table[k]]

\* ------------------------------------------------------------ the models
\* class User: email is unique
User(name, email, password) == [email |-> email, password |-> password, name |-> name]
\* a faulty variant of Comment: the comment is attributed to the author of the post
Comment_by_post_author(text, parent_post, comment_author) ==
  [author_id |-> posts[parent_post].author_id, post_id |-> parent_post, text |-> text]
\* class Comment
Comment(text, parent_post, comment_author) ==
  [author_id |-> comment_author, post_id |-> parent_post, text |-> text]
\* class BlogPost: title is unique
BlogPost(title, subtitle, body, img_url, author, date) ==
  [author_id |-> author, title |-> title, subtitle |-> subtitle, date |-> date,
   body |-> body, img_url |-> img_url]

\* the UNIQUE constraint of users.email, checked by the database at the commit
email_unique(table, email) == \A k \in DOMAIN table : table[k].email # email
\* a faulty variant of title_unique: the column is declared without unique=True
title_not_unique(table, id, title) == TRUE
\* the UNIQUE constraint of blog_posts.title, checked at the commit of row `id`
title_unique(table, id, title) ==
  \A k \in DOMAIN table \ {id} : table[k].title # title

\* a faulty variant of get_or_404: the row is fetched with a plain get and its absence is
\* not looked at
get_unchecked(table, id) == TRUE
\* db.get_or_404(BlogPost, post_id): whether the row is there; when it is not,
\* the handler stops with a 404
get_or_404(table, id) == id \in DOMAIN table

\* User.query.filter_by(email=email).first(): the key of the row, or Null
first_by_email(table, email) ==
  IF \E k \in DOMAIN table : table[k].email = email
  THEN CHOOSE k \in DOMAIN table : table[k].email = email
  ELSE Null

\* ------------------------------------------------------ password hashing
PasswordCode(password) ==
  CASE password = "pw1" -> 1
    [] password = "pw2" -> 2
    [] OTHER -> 0
\* a salted one-way digest of the password
Digest(salt, password) == (salt * 31 + PasswordCode(password) * 7) % 97
generate_password_hash(password, salt) == [salt |-> salt, digest |-> Digest(salt, password)]
\* a faulty variant of check_password_hash: the password is not compared
check_password_skipped(pwhash, password) == TRUE
check_password_hash(pwhash, password) == Digest(pwhash.salt, password) = pwhash.digest

\* date.today().strftime("%B %d, %Y"), for the days from January 31, 2024 on
strftime(day) ==
  IF day = 0 THEN <<"January", <<3, 1>>, <<2, 0, 2, 4>>>>
  ELSE <<"February", <<day \div 10, day % 10>>, <<2, 0, 2, 4>>>>

\* ---------------------------------------------------------------- forms
\* forms.py: every field of a form is required
RegisterForm(form) == form.name # "" /\ form.email # "" /\ form.password # ""
LoginForm(form) == form.email # "" /\ form.password # ""
CommentForm(form) == form.comment # ""
CreatePostForm(form) ==
  form.title # "" /\ form.subtitle # "" /\ form.body # "" /\ form.img_url # ""
\* FlaskForm.validate_on_submit: the request submits the form and the form validates
validate_on_submit(method, valid) == method = "POST" /\ valid

\* ------------------------------------------------- session, authorization
\* load_user: the session's user id resolved by primary key
load_user(user_id) == IF user_id \in DOMAIN users THEN user_id ELSE Anonymous
current_user(c) == load_user(session[c])
\* a faulty variant of is_authenticated: the anonymous user object counts as logged in
is_authenticated_always(uid) == TRUE
is_authenticated(uid) == uid # Anonymous
\* a faulty variant of admin_only: any logged-in user passes
admin_only_any_user(uid) == is_authenticated(uid)
\* admin_only: the wrapped handler runs only for the user with key 1
admin_only(uid) == is_authenticated(uid) /\ uid = AdminId

\* a request of browser c: the route, the identity the session resolves to, the
\* post id of the URL (0 when the route has none) and the form
Request(op, c, id, form) == [op |-> op, uid |-> current_user(c), id |-> id, form |-> form]

\* ---------------------------------------------------------------- state
Init ==
  /\ users = <<>>
  /\ posts = <<>>
  /\ comments = <<>>
  /\ session = [c \in Clients |-> Anonymous]
  /\ pending = [c \in Clients |-> NoReq]
  /\ today = 0
  /\ smtp = [attempts |-> 0, sent |-> 0]
  /\ req = NoReq
  /\ resp = InFlight

\* a browser sends its next request when the last one has been answered
Idle(c) == pending[c].op = "none"
InFlightOf(op) == Cardinality({c \in Clients : pending[c].op = op})
Serve(r, out) == req' = r /\ resp' = out

\* ------------------------------------------------------------- /register
\* register, up to the query for an existing user
register(c, method, form) ==
  LET r == Request("register", c, 0, form) IN
  /\ Idle(c)
  /\ IF validate_on_submit(method, RegisterForm(form))
     THEN IF first_by_email(users, form.email) = Null
          THEN /\ NextId(users) + InFlightOf("register") <= MaxUsers
               /\ pending' = [pending EXCEPT ![c] = r]
               /\ Serve(r, InFlight)
          ELSE /\ Serve(r, flash("E-mail already registered!", <<"login">>))
               /\ UNCHANGED pending
     ELSE /\ Serve(r, render_template("register.html"))
          /\ UNCHANGED pending
  /\ UNCHANGED <<users, posts, comments, session, today, smtp>>

\* register, from db.session.add(new_user) on: the commit, then login_user
register_commit(c, salt) ==
  LET r == pending[c]
      new_user == User(r.form.name, r.form.email,
                       generate_password_hash(r.form.password, salt)) IN
  /\ r.op = "register"
  /\ pending' = [pending EXCEPT ![c] = NoReq]
  /\ IF email_unique(users, r.form.email)
     THEN /\ users' = Insert(users, new_user)
          /\ session' = [session EXCEPT ![c] = NextId(users)]
          /\ Serve(r, redirect(<<"get_all_posts">>))
     ELSE \* IntegrityError out of db.session.commit(): nothing handles it
          /\ Serve(r, uncaught("IntegrityError"))
          /\ UNCHANGED <<users, session>>
  /\ UNCHANGED <<posts, comments, today, smtp>>

\* ---------------------------------------------------------------- /login
\* the user row the credentials of the form open, or Null
authenticate(table, form) ==
  LET user == first_by_email(table, form.email) IN
  IF user # Null /\ check_password_hash(table[user].password, form.password)
  THEN user
  ELSE Null

login_response(table, method, form) ==
  IF validate_on_submit(method, LoginForm(form))
  THEN IF authenticate(table, form) # Null
       THEN redirect(<<"get_all_posts">>)
       ELSE flash("Invalid email or password!", <<"login">>)
  ELSE render_template("login.html")

login(c, method, form) ==
  LET r == Request("login", c, 0, form) IN
  /\ Idle(c)
  /\ Serve(r, login_response(users, method, form))
  /\ session' = IF validate_on_submit(method, LoginForm(form))
                   /\ authenticate(users, form) # Null
                THEN [session EXCEPT ![c] = authenticate(users, form)]
                ELSE session
  /\ UNCHANGED <<users, posts, comments, pending, today, smtp>>

\* --------------------------------------------------------------- /logout
\* login_required with no login_view configured answers 401
logout(c) ==
  LET r == Request("logout", c, 0, NoForm) IN
  /\ Idle(c)
  /\ IF is_authenticated(current_user(c))
     THEN /\ session' = [session EXCEPT ![c] = Anonymous]
          /\ Serve(r, redirect(<<"get_all_posts">>))
     ELSE /\ Serve(r, abort(401))
          /\ UNCHANGED session
  /\ UNCHANGED <<users, posts, comments, pending, today, smtp>>

\* --------------------------------------------------------------------- /
get_all_posts(c) ==
  /\ Idle(c)
  /\ Serve(Request("get_all_posts", c, 0, NoForm), render_template("index.html"))
  /\ UNCHANGED <<users, posts, comments, session, pending, today, smtp>>

\* ---------------------------------------------------------- /post/<id>
show_post(c, method, post_id, form) ==
  LET r == Request("show_post", c, post_id, NoForm) IN
  /\ Idle(c)
  /\ IF ~get_or_404(posts, post_id)
     THEN /\ Serve(r, abort(404))
          /\ UNCHANGED comments
     ELSE IF validate_on_submit(method, CommentForm(form))
     THEN IF is_authenticated(current_user(c))
          THEN /\ NextId(comments) <= MaxComments
               /\ comments' = Insert(comments, Comment(form.comment, post_id, current_user(c)))
               /\ Serve(r, redirect(<<"show_post", post_id>>))
          ELSE /\ Serve(r, flash("You have to login first!", <<"login">>))
               /\ UNCHANGED comments
     ELSE /\ Serve(r, render_template("post.html"))
          /\ UNCHANGED comments
  /\ UNCHANGED <<users, posts, session, pending, today, smtp>>

\* ------------------------------------------------------------- /new-post
add_new_post(c, method, form) ==
  LET r == Request("add_new_post", c, 0, NoForm)
      new_post == BlogPost(form.title, form.subtitle, form.body, form.img_url,
                           current_user(c), strftime(today)) IN
  /\ Idle(c)
  /\ IF ~admin_only(current_user(c))
     THEN /\ Serve(r, abort(403))
          /\ UNCHANGED posts
     ELSE IF validate_on_submit(method, CreatePostForm(form))
     THEN /\ NextId(posts) <= MaxPosts
          /\ IF title_unique(posts, NextId(posts), form.title)
             THEN /\ posts' = Insert(posts, new_post)
                  /\ Serve(r, redirect(<<"get_all_posts">>))
             ELSE \* IntegrityError out of db.session.commit()
                  /\ Serve(r, uncaught("IntegrityError"))
                  /\ UNCHANGED posts
     ELSE /\ Serve(r, render_template("make-post.html"))
          /\ UNCHANGED posts
  /\ UNCHANGED <<users, comments, session, pending, today, smtp>>

\* ------------------------------------------------------ /edit-post/<id>
\* a faulty variant of edited: the edit stamps the date again, as add_new_post does
edited_restamped(post, form, author) ==
  [post EXCEPT !.title = form.title, !.subtitle = form.subtitle,
               !.img_url = form.img_url, !.author_id = author, !.body = form.body,
               !.date = strftime(today)]
\* the post as the assignments of edit_post leave it
edited(post, form, author) ==
  [post EXCEPT !.title = form.title, !.subtitle = form.subtitle,
               !.img_url = form.img_url, !.author_id = author, !.body = form.body]

\* edit_post, up to the form's validation
edit_post(c, method, post_id, form) ==
  LET r == Request("edit_post", c, post_id, NoForm) IN
  /\ Idle(c)
  /\ IF ~admin_only(current_user(c))
     THEN /\ Serve(r, abort(403))
          /\ UNCHANGED pending
     ELSE IF ~get_or_404(posts, post_id)
     THEN /\ Serve(r, abort(404))
          /\ UNCHANGED pending
     ELSE IF validate_on_submit(method, CreatePostForm(form))
     THEN /\ pending' = [pending EXCEPT ![c] = [r EXCEPT !.form = form]]
          /\ Serve(r, InFlight)
     ELSE /\ Serve(r, render_template("make-post.html"))
          /\ UNCHANGED pending
  /\ UNCHANGED <<users, posts, comments, session, today, smtp>>

\* edit_post, from the assignments to the post on: the UPDATE and its commit
edit_post_commit(c) ==
  LET r == pending[c] IN
  /\ r.op = "edit_post"
  /\ pending' = [pending EXCEPT ![c] = NoReq]
  /\ IF r.id \notin DOMAIN posts
     THEN \* the UPDATE matches no row
          /\ Serve([r EXCEPT !.form = NoForm], uncaught("StaleDataError"))
          /\ UNCHANGED posts
     ELSE IF title_unique(posts, r.id, r.form.title)
     THEN /\ posts' = [posts EXCEPT ![r.id] = edited(posts[r.id], r.form, r.uid)]
          /\ Serve([r EXCEPT !.form = NoForm], redirect(<<"show_post", r.id>>))
     ELSE /\ Serve([r EXCEPT !.form = NoForm], uncaught("IntegrityError"))
          /\ UNCHANGED posts
  /\ UNCHANGED <<users, comments, session, today, smtp>>

\* --------------------------------------------------------- /delete/<id>
\* a faulty variant of orphaned: the relationship cascades the delete to the comments
cascaded(table, post_id) ==
  [k \in {i \in DOMAIN table : table[i].post_id # post_id} |-> table[k]]
\* the comment table after the post is deleted: the relationship has no delete
\* cascade, so the comments stay and their post_id is set to NULL
orphaned(table, post_id) ==
  [k \in DOMAIN table |->
     IF table[k].post_id = post_id THEN [table[k] EXCEPT !.post_id = Null] ELSE table[k]]

delete_post(c, post_id) ==
  LET r == Request("delete_post", c, post_id, NoForm) IN
  /\ Idle(c)
  /\ IF ~admin_only(current_user(c))
     THEN /\ Serve(r, abort(403))
          /\ UNCHANGED <<posts, comments>>
     ELSE IF ~get_or_404(posts, post_id)
     THEN /\ Serve(r, abort(404))
          /\ UNCHANGED <<posts, comments>>
     ELSE /\ posts' = Remove(posts, post_id)
          /\ comments' = orphaned(comments, post_id)
          /\ Serve(r, redirect(<<"get_all_posts">>))
  /\ UNCHANGED <<users, session, pending, today, smtp>>

\* ---------------------------------------------------------------- /about
about(c) ==
  /\ Idle(c)
  /\ Serve(Request("about", c, 0, NoForm), render_template("about.html"))
  /\ UNCHANGED <<users, posts, comments, session, pending, today, smtp>>

\* -------------------------------------------------------------- /contact
\* the exception each failing step of the exchange raises
smtp_error(outcome) ==
  CASE outcome = "connect_failed" -> "SMTPConnectError"
    [] outcome = "starttls_failed" -> "SMTPNotSupportedError"
    [] outcome = "login_failed" -> "SMTPAuthenticationError"
    [] OTHER -> "SMTPRecipientsRefused"
\* `outcome` is how far the SMTP exchange gets; an SMTP error is not caught
contact(c, method, outcome) ==
  LET r == Request("contact", c, 0, NoForm) IN
  /\ Idle(c)
  /\ IF ~is_authenticated(current_user(c))
     THEN /\ Serve(r, abort(401))
          /\ UNCHANGED smtp
     ELSE IF method = "POST"
     THEN /\ smtp.attempts < MaxMail
          /\ smtp' = [attempts |-> smtp.attempts + 1,
                      sent |-> smtp.sent + (IF outcome = "sent" THEN 1 ELSE 0)]
          /\ Serve(r, IF outcome = "sent" THEN redirect(<<"get_all_posts">>)
                                            ELSE uncaught(smtp_error(outcome)))
     ELSE /\ Serve(r, render_template("contact.html"))
          /\ UNCHANGED smtp
  /\ UNCHANGED <<users, posts, comments, session, pending, today>>

\* the calendar day advances
Tick ==
  /\ today < MaxDay
  /\ today' = today + 1
  /\ UNCHANGED <<users, posts, comments, session, pending, smtp, req, resp>>

\* a GET request carries no form data: its form is the blank one
Submitted(method, forms, blank) == IF method = "GET" THEN {blank} ELSE forms
BlankRegister == [name |-> "", email |-> "", password |-> ""]
BlankLogin == [email |-> "", password |-> ""]
BlankComment == [comment |-> ""]
BlankPost == [title |-> "", subtitle |-> "", body |-> "", img_url |-> ""]
PostIds == 1..MaxPosts

\* the account routes
NextAccounts ==
  \/ \E c \in Clients, m \in Methods :
        \E f \in Submitted(m, RegisterForms, BlankRegister) : register(c, m, f)
  \/ \E c \in Clients, salt \in Salts : register_commit(c, salt)
  \/ \E c \in Clients, m \in Methods :
        \E f \in Submitted(m, LoginForms, BlankLogin) : login(c, m, f)
  \/ \E c \in Clients : logout(c)
  \/ \E c \in Clients : about(c)
  \/ \E c \in Clients, m \in Methods :
        \E o \in IF m = "GET" THEN {"sent"} ELSE SmtpOutcomes : contact(c, m, o)

\* the post routes
PostRoutes ==
  \/ \E c \in Clients : get_all_posts(c)
  \/ \E c \in Clients, m \in Methods :
        \E f \in Submitted(m, PostForms, BlankPost) : add_new_post(c, m, f)
  \/ \E c \in Clients, m \in Methods, id \in PostIds :
        \E f \in Submitted(m, PostForms, BlankPost) : edit_post(c, m, id, f)
  \/ \E c \in Clients, id \in PostIds : delete_post(c, id)

\* the post detail route, which takes the comments
CommentRoutes ==
  \E c \in Clients, m \in Methods, id \in PostIds :
    \E f \in Submitted(m, CommentForms, BlankComment) : show_post(c, m, id, f)

\* the post routes served on concurrent threads
NextPosts == PostRoutes \/ \E c \in Clients : edit_post_commit(c)

\* the post and comment routes served one request at a time: a request is taken
\* up when no handler is between its read and its commit
NextBlog ==
  \/ (\A c \in Clients : Idle(c)) /\ (PostRoutes \/ CommentRoutes \/ Tick)
  \/ \E c \in Clients : edit_post_commit(c)

Next == NextAccounts \/ NextPosts \/ CommentRoutes \/ Tick

\* the whole application on concurrent threads, from the empty database
Spec == Init /\ [][Next]_vars

\* the account routes alone, from the empty database
SpecAccounts == Init /\ [][NextAccounts]_vars

\* Ann (the administrator, key 1) and Bob have registered; browser c1 is logged in
\* as Ann, browser c2 as Ann, as Bob or not at all
Registered ==
  Insert(Insert(<<>>, User("Ann", "a@x", generate_password_hash("pw1", 3))),
         User("Bob", "b@x", generate_password_hash("pw2", 5)))
InitBlog ==
  /\ users = Registered
  /\ posts = <<>>
  /\ comments = <<>>
  /\ session \in {s \in [Clients -> DOMAIN Registered \cup {Anonymous}] : s["c1"] = AdminId}
  /\ pending = [c \in Clients |-> NoReq]
  /\ today = 0
  /\ smtp = [attempts |-> 0, sent |-> 0]
  /\ req = NoReq
  /\ resp = InFlight

\* the post routes on concurrent threads, from there
SpecPosts == InitBlog /\ [][NextPosts]_vars

\* the post and comment routes one request at a time, from there
SpecBlog == InitBlog /\ [][NextBlog]_vars

\* ================================================================ claims
\* Each property below is about one step: req' and resp' are the request the
\* step served and its response, the unprimed tables the storage before it.
Tables == <<users, posts, comments>>
Redirected(to) == [status |-> 302, to |-> to, flash |-> "", page |-> "", error |-> ""]
Flashed(message, to) ==
  [status |-> 302, to |-> to, flash |-> message, page |-> "", error |-> ""]
\* the browsers whose session resolves to identity uid
Browsers(uid) == {c \in Clients : session[c] = uid /\ (uid = 0 \/ uid \in DOMAIN users)}
\* the step serves a request: the only other step is the passing of a day
Serving == today' = today
\* the step is the commit of a handler that had read before
Committing == \E c \in Clients : pending[c].op # "none" /\ pending'[c].op = "none"
AdminRoutes == {"add_new_post", "edit_post", "delete_post"}
PostsWithTitle(table, title) == {k \in DOMAIN table : table[k].title = title}
UsersWithEmail(table, email) == {k \in DOMAIN table : table[k].email = email}
CommentsOn(table, post_id) == {k \in DOMAIN table : table[k].post_id = post_id}

\* C1: a create-post, edit-post or delete-post request of a browser that is
\* anonymous or logged in as a user other than user 1 is answered 403 and leaves
\* the three tables as they were (and no edit waiting to commit); and every step
\* that changes the blog_posts table serves such a request of user 1.
C1_AdminOnly ==
  [][ /\ Serving /\ req'.op \in AdminRoutes /\ req'.uid # 1
           => /\ resp'.status = 403
              /\ UNCHANGED Tables /\ UNCHANGED pending
              /\ Browsers(req'.uid) # {}
      /\ posts' # posts => req'.op \in AdminRoutes /\ req'.uid = 1
    ]_vars

\* C1 witness: Bob's delete request was refused with 403 while a post exists
C1_Witness ==
  /\ req.op = "delete_post" /\ req.uid = 2 /\ resp.status = 403
  /\ req.id \in DOMAIN posts

\* C2 as stated: viewing, editing or deleting a post id that is not in storage
\* is answered 404 and changes no table, whoever asks.
C2_Original ==
  [][ Serving /\ req'.op \in {"show_post", "edit_post", "delete_post"} /\ ~Committing
        /\ req'.id \notin DOMAIN posts
      => resp'.status = 404 /\ UNCHANGED Tables
    ]_vars

\* C2 amended: viewing a post id that is not in storage is answered 404 whoever
\* asks; editing or deleting it is answered 404 when user 1 asks and 403 when
\* anyone else does; in every case no table changes and no edit is left to commit.
C2_NotFound ==
  [][ /\ Serving /\ req'.op = "show_post" /\ req'.id \notin DOMAIN posts
           => resp'.status = 404 /\ UNCHANGED Tables
      /\ Serving /\ req'.op \in {"edit_post", "delete_post"} /\ ~Committing
           /\ req'.id \notin DOMAIN posts
           => /\ resp'.status = IF req'.uid = 1 THEN 404 ELSE 403
              /\ UNCHANGED Tables /\ UNCHANGED pending
    ]_vars

\* C2 witness: the administrator's edit request for a post that is not in
\* storage was answered 404
C2_Witness ==
  /\ req.op = "edit_post" /\ req.uid = 1 /\ resp.status = 404
  /\ req.id \notin DOMAIN posts

\* C3: after every step no two rows of blog_posts have the same title; a valid
\* create-post submission whose title a row already has, and an edit whose
\* title another row has when it commits, are answered with an error and leave
\* the blog_posts table as it was.
C3_UniqueTitles ==
  [][ /\ \A i \in DOMAIN posts', j \in DOMAIN posts' :
           i # j => posts'[i].title # posts'[j].title
      /\ Serving /\ req'.op = "add_new_post" /\ req'.uid = 1 =>
           \A c \in Browsers(1), f \in PostForms :
             /\ CreatePostForm(f) /\ PostsWithTitle(posts, f.title) # {}
             /\ add_new_post(c, "POST", f)
             => resp'.status = 500 /\ posts' = posts
      /\ Serving /\ req'.op = "edit_post" /\ Committing =>
           \A c \in Clients :
             /\ pending[c].op = "edit_post"
             /\ PostsWithTitle(posts, pending[c].form.title) \ {pending[c].id} # {}
             /\ edit_post_commit(c)
             => resp'.status = 500 /\ posts' = posts
    ]_vars

\* C3 witness: an edit was refused for its title while two posts exist
C3_Witness ==
  /\ req.op = "edit_post" /\ resp.error = "IntegrityError"
  /\ Cardinality(DOMAIN posts) = 2

\* C4 as stated: a register request whose email a row of users already has when
\* the request is answered adds no second row with that email, is answered with
\* the flash message and the redirect to the login page, and leaves every
\* session as it was.
C4_Claim ==
  [][ Serving /\ req'.op = "register" /\ RegisterForm(req'.form) /\ resp' # InFlight
        /\ UsersWithEmail(users, req'.form.email) # {}
      => /\ Cardinality(UsersWithEmail(users', req'.form.email)) = 1
         /\ resp' = Flashed("E-mail already registered!", <<"login">>)
         /\ session' = session
    ]_vars

\* C5: a login submission with the email of a user row and a password other
\* than the one that row was registered with leaves every session as it was,
\* and its response is the response the same submission gets with an email no
\* row has; when the form validates that response is the flash message
\* 'Invalid email or password!' with a redirect to the login page.
C5_WrongPassword ==
  [][ LET f == req'.form
          row == UsersWithEmail(users, f.email)
          unknown == [email |-> "z@x", password |-> f.password] IN
      /\ Serving /\ req'.op = "login"
      /\ row # {}
      /\ \A k \in row :
           generate_password_hash(f.password, users[k].password.salt) # users[k].password
      /\ UsersWithEmail(users, "z@x") = {}
      => /\ session' = session
         /\ \A c \in Clients : login(c, "POST", f) => resp' = login_response(users, "POST", unknown)
         /\ LoginForm(f) => resp' = Flashed("Invalid email or password!", <<"login">>)
    ]_vars

\* C5 witness: a login with Ann's email and a password she did not register
\* with was answered, and no browser is logged in
C5_Witness ==
  /\ req.op = "login" /\ req.form.email = "a@x" /\ req.form.password = "pw2"
  /\ \E k \in DOMAIN users : users[k].name = "Ann"
  /\ resp.flash = "Invalid email or password!"
  /\ \A c \in Clients : session[c] = 0

\* C6: a comment submission of a browser that is not logged in leaves the
\* comment table as it was; on a post in storage, with the comment filled in,
\* it is answered with a flash message and a redirect to the login page.
C6_AnonymousComment ==
  [][ Serving /\ req'.op = "show_post" /\ req'.uid = 0
      => /\ comments' = comments
         /\ \A c \in Browsers(0), f \in CommentForms :
              req'.id \in DOMAIN posts /\ f.comment # ""
                /\ show_post(c, "POST", req'.id, f)
              => resp' = Flashed("You have to login first!", <<"login">>)
    ]_vars

\* C6 witness: an anonymous comment submission on a post in storage was turned
\* away to the login page
C6_Witness ==
  /\ req.op = "show_post" /\ req.uid = 0 /\ req.id \in DOMAIN posts
  /\ resp.flash = "You have to login first!" /\ resp.to = <<"login">>

\* C7: a comment submission with text t by a logged-in user A on a post P in
\* storage adds exactly one row to the comment table, with author A, post P and
\* text t, so P has one comment more; no other comment, post or user row
\* changes, and the response is a redirect to the detail page of P.
C7_CommentPersisted ==
  [][ Serving /\ req'.op = "show_post" /\ req'.uid # 0 /\ req'.id \in DOMAIN posts =>
        \A c \in Browsers(req'.uid), f \in CommentForms :
          f.comment # "" /\ show_post(c, "POST", req'.id, f)
          => /\ \E k \in DOMAIN comments' \ DOMAIN comments :
                  /\ DOMAIN comments' = DOMAIN comments \cup {k}
                  /\ comments'[k].author_id = req'.uid
                  /\ comments'[k].post_id = req'.id
                  /\ comments'[k].text = f.comment
             /\ \A j \in DOMAIN comments : comments'[j] = comments[j]
             /\ Cardinality(CommentsOn(comments', req'.id))
                  = Cardinality(CommentsOn(comments, req'.id)) + 1
             /\ posts' = posts /\ users' = users
             /\ resp' = Redirected(<<"show_post", req'.id>>)
    ]_vars

\* C7 witness: Bob's comment "hello" on a post of Ann is in storage and the
\* response sends him back to that post
C7_Witness ==
  /\ req.op = "show_post" /\ req.uid = 2 /\ resp.status = 302
  /\ \E k \in DOMAIN comments :
       /\ users[comments[k].author_id].name = "Bob"
       /\ comments[k].text = "hello"
       /\ comments[k].post_id = req.id
       /\ posts[req.id].author_id = 1
       /\ resp.to = <<"show_post", req.id>>

\* C8: a valid edit-post submission by user 1 on a post in storage is taken up,
\* and when it commits with a title no other post has, the post's title,
\* subtitle, img_url and body are the submitted ones and its author is the
\* requester; its date and id, every other post, the comments and the users are
\* as before, and the response is a redirect to the post's detail page.
C8_EditOverwrites ==
  [][ Serving /\ req'.op = "edit_post" /\ req'.uid = 1 =>
        \A c \in Browsers(1) :
          /\ \A f \in PostForms :
               req'.id \in DOMAIN posts /\ CreatePostForm(f)
                 /\ edit_post(c, "POST", req'.id, f)
               => /\ pending'[c].op = "edit_post" /\ pending'[c].id = req'.id
                  /\ pending'[c].form = f /\ pending'[c].uid = 1
                  /\ UNCHANGED Tables
          /\ LET id == pending[c].id
                 f == pending[c].form IN
             (pending[c].op = "edit_post" /\ id \in DOMAIN posts
                /\ PostsWithTitle(posts, f.title) \ {id} = {}
                /\ edit_post_commit(c))
             => /\ DOMAIN posts' = DOMAIN posts
                /\ posts'[id].title = f.title
                /\ posts'[id].subtitle = f.subtitle
                /\ posts'[id].img_url = f.img_url
                /\ posts'[id].body = f.body
                /\ posts'[id].author_id = 1
                /\ posts'[id].date = posts[id].date
                /\ \A j \in DOMAIN posts \ {id} : posts'[j] = posts[j]
                /\ comments' = comments /\ users' = users
                /\ resp' = Redirected(<<"show_post", id>>)
    ]_vars

\* C8 witness: a post created as T1/S1 on the first day and commented on was
\* edited a day later: it shows subtitle S2, title T1 and its first date
C8_Witness ==
  /\ req.op = "edit_post" /\ resp = Redirected(<<"show_post", req.id>>) /\ today = 1
  /\ req.id \in DOMAIN posts
  /\ posts[req.id].title = "T1" /\ posts[req.id].subtitle = "S2"
  /\ posts[req.id].date = <<"January", <<3, 1>>, <<2, 0, 2, 4>>>>
  /\ CommentsOn(comments, req.id) # {}

\* C9 as stated: a POST to /contact by a logged-in browser is answered with a
\* redirect to the home page however the SMTP exchange goes; for a browser that
\* is not logged in the login gate answers and no SMTP connection is attempted.
C9_Claim ==
  [][ Serving /\ req'.op = "contact" =>
        \A c \in Browsers(req'.uid), o \in SmtpOutcomes :
          contact(c, "POST", o)
          => IF req'.uid = 0
             THEN smtp' = smtp /\ resp'.status \in {401, 302}
             ELSE resp' = Redirected(<<"get_all_posts">>)
    ]_vars

\* C10: delete-post by user 1 on a post in storage removes that row of
\* blog_posts and no other, removes no comment and no user, leaves every post
\* and every comment of another post as it was, and is answered with a redirect
\* to the listing; the comments of the deleted post keep their author and text
\* and have no post in storage.
C10_DeleteStrands ==
  [][ LET id == req'.id IN
      Serving /\ req'.op = "delete_post" /\ req'.uid = 1 /\ id \in DOMAIN posts
      => /\ DOMAIN posts' = DOMAIN posts \ {id}
         /\ \A j \in DOMAIN posts' : posts'[j] = posts[j]
         /\ users' = users
         /\ DOMAIN comments' = DOMAIN comments
         /\ \A k \in DOMAIN comments :
              IF comments[k].post_id = id
              THEN /\ comments'[k].author_id = comments[k].author_id
                   /\ comments'[k].text = comments[k].text
                   /\ comments'[k].post_id \notin DOMAIN posts'
              ELSE comments'[k] = comments[k]
         /\ resp' = Redirected(<<"get_all_posts">>)
    ]_vars

\* C10 witness: a post was deleted and a comment written on it is still there,
\* with no post
C10_Witness ==
  /\ req.op = "delete_post" /\ resp.status = 302 /\ req.id \notin DOMAIN posts
  /\ \E k \in DOMAIN comments : comments[k].post_id \notin DOMAIN posts

====
